---- MODULE Spec2Model ----
(***************************************************************************)
(* Session lifecycle of open-remote-distrobox: the bash control script     *)
(* written by get_control_script (src/src/setup.ts) and the resolver       *)
(* RemoteAuthorityResolver.resolve that drives it (src/unnamed/part_011).  *)
(*                                                                         *)
(* One session directory is modelled.  Its state files are port, pid1,     *)
(* pid2 and count; the log file keeps the last listening-port marker.      *)
(* Callers are independent extension hosts resolving the same target.      *)
(***************************************************************************)
EXTENDS Integers, FiniteSets, Sequences, TLC

\* ------------------------------------------------------------------ bounds
NumCallers == 2
MaxLaunch == 2
NumPorts == 2
MaxStops == 2
NumTargets == 2
MaxInstalls == 2

\* ------------------------------------------------------- program constants
\* start_server 10 in connect_or_start_server
AttemptBudget == 10
\* parseInt of a text that does not start with digits
NaN == -1

Callers == 1..NumCallers
Launches == 1..MaxLaunch
Ports == 1..NumPorts
Files == {"port", "pid1", "pid2", "count"}
NoFiles == [port |-> 0, pid1 |-> 0, pid2 |-> 0, count |-> 0]
NoResult == [kind |-> "none", host |-> "", port |-> 0]

\* pid of the process start_server launches ($!), and of its child (node)
WrapperPid(k) == 2 * k - 1
WorkerPid(k) == 2 * k

VARIABLES
    present,     \* the state files that exist in the session directory
    val,         \* their contents (0 where the file is absent or empty)
    logExists,   \* the log file exists
    log,         \* the port of the last listening marker in the log, 0 if none
    lock,        \* the holder of flock on the session directory, 0 if free
    deployed,    \* per control script path: the version that wrote it, or ""
    installed,   \* the server binary exists under the install path
    stage,       \* per launch: how far the launched server process has come
    live,        \* pids of the live processes
    lport,       \* per launch: the port its worker listens on, 0 if none
    pc,          \* per caller: position in resolve / in the control script
    op,          \* per caller: the script command being executed
    attempt,     \* per caller: 1 = optimistic attempt, 2 = retry
    i,           \* per caller: loop counter of start_server
    PORT,        \* per caller: shell variable PORT of start_server
    PID1,        \* per caller: shell variable PID1 of start_server
    connOut,     \* per caller: what connect_server printed
    out,         \* per caller: stdout of the script invocation
    result,      \* per caller: what resolve returned or threw
    registered,  \* per caller: release callbacks pushed by this resolve
    disconnects, \* per caller: synchronized-disconnect invocations issued
    installs,    \* per caller: install invocations issued by this resolve
    launched,    \* per caller: launches made by the current invocation
    incs,        \* per caller: times this resolve raised the count file
    decs,        \* per caller: times its disconnect lowered the count file
    fromEmpty,   \* per caller: start_server began in an empty directory
    first,       \* per caller: what the failed optimistic attempt launched
    joined,      \* per caller: the pid2 of the session whose count it raised
    clearpc,     \* the manual recovery command: "idle" or "stop"
    stops,       \* runs of the manual recovery command that have completed
    guest,       \* the guest container: what its ldd prints
    dpc,         \* detect_platform: position
    execs,       \* detect_platform: guest.exec calls made
    ldd_info,    \* detect_platform: the captured output of the first probe
    os,          \* detect_platform: variable os
    arch,        \* detect_platform: variable arch
    thrown,      \* detect_platform: the exception it has thrown, "" if none
    VSCODE_PRODUCT_JSON, \* the product information of the running editor
    pathTemplate, \* the setting distroboxRemoteServer.install.pathTemplate
    target,      \* per target: [os, arch] as detected and the container name
    ident,       \* per target: the session identifier computed, "" if none
    fs,          \* directories and files under the shared home directory
    done,        \* per target: install invocations that have completed
    version      \* per caller: packageJSON.version of its orchestrator

vars == <<present, val, logExists, log, lock, deployed, installed, stage,
          live, lport, pc, op, attempt, i, PORT, PID1, connOut, out, result,
          registered, disconnects, installs, launched, incs, decs, fromEmpty,
          first, joined, clearpc, stops, guest, dpc, execs, ldd_info, os, arch,
          thrown,
          VSCODE_PRODUCT_JSON, pathTemplate, target, ident, fs, done,
          version>>

dirVars == <<present, val>>
procVars == <<stage, live, lport>>
shellVars == <<i, PORT, PID1, connOut, out, launched>>
histVars == <<result, registered, disconnects, installs>>
ghostVars == <<incs, decs, fromEmpty>>
detectVars == <<guest, dpc, execs, ldd_info, os, arch, thrown>>
configVars == <<VSCODE_PRODUCT_JSON, pathTemplate, target, ident, fs, done,
                version>>

\* ------------------------------------------------------------------ helpers
\* echo "$PORT": the decimal text of a port
PortText(n) == ToString(n)

\* [[ "$PORT" =~ ^[0-9]+$ ]]
IsNumeric(s) == \E n \in Ports : PortText(n) = s

\* parseInt(output.stdout)
ParseInt(s) == IF IsNumeric(s) THEN CHOOSE n \in Ports : PortText(n) = s ELSE NaN

\* cat "$F": empty (0) when the file does not exist
Cat(f) == IF f \in present THEN val[f] ELSE 0

\* kill -0 $(cat "$F")
Alive(pid) == pid \in live

\* lsof -iTCP:$port -sTCP:LISTEN -t : the pid listening on the port, 0 if none
Lsof(p) ==
    IF \E k \in Launches : stage[k] = "listening" /\ lport[k] = p
                           /\ WorkerPid(k) \in live
    THEN WorkerPid(CHOOSE k \in Launches : stage[k] = "listening" /\ lport[k] = p
                                           /\ WorkerPid(k) \in live)
    ELSE 0

\* ports not bound by a live listener (--port 0 lets the system pick one)
FreePorts == {p \in Ports : Lsof(p) = 0}

\* mutant of PsChild: the pid of the launched process itself is taken for
\* the pid of its child
PsChild_self(w) == w

\* ps --ppid $PID1 --format pid= | xargs : the child of the wrapper, 0 if none
PsChild(w) ==
    IF \E k \in Launches : WrapperPid(k) = w /\ WorkerPid(k) \in live
    THEN w + 1 ELSE 0

\* mutant of stop_server_kills: only the worker is killed
stop_server_kills_pid2_only ==
    IF "pid2" \in present THEN {val.pid2} ELSE {}

\* the pids stop_server sends a signal to
stop_server_kills ==
    (IF "pid2" \in present THEN {val.pid2} ELSE {})
    \cup (IF "pid1" \in present THEN {val.pid1} ELSE {})

\* the processes left after the pids in S have died; a launch none of whose
\* processes is left is forgotten, one whose worker died listens no more
Die(S) ==
    /\ live' = live \ S
    /\ stage' = [k \in Launches |->
                    IF stage[k] = "unused"
                    THEN "unused"
                    ELSE IF {WrapperPid(k), WorkerPid(k)} \cap (live \ S) = {}
                    THEN "dead"
                    ELSE IF stage[k] \in {"worker", "listening"}
                            /\ WorkerPid(k) \notin (live \ S)
                    THEN "childless"
                    ELSE stage[k]]
    /\ lport' = [k \in Launches |->
                    IF WorkerPid(k) \in (live \ S) THEN lport[k] ELSE 0]

\* mutant of stop_server: a kill that fails (dead or missing pid) aborts it
stop_server_kill_must_succeed ==
    /\ {"pid1", "pid2"} \subseteq present
    /\ stop_server_kills \subseteq live
    /\ Die(stop_server_kills)
    /\ present' = {}
    /\ val' = NoFiles

\* mutant of stop_server: the count file is left behind
stop_server_keeps_count ==
    /\ Die(stop_server_kills)
    /\ present' = present \cap {"count"}
    /\ val' = [NoFiles EXCEPT !.count = val.count]

\* stop_server: kill the recorded pids, rm -f the four state files
stop_server ==
    /\ Die(stop_server_kills)
    /\ present' = {}
    /\ val' = NoFiles

\* -------------------------------------------------------- platform detection
\* the raw architecture tokens a guest may report
SupportedTokens == {"x86_64", "x86-64", "amd64", "armv7l", "armv8l", "arm64",
                    "aarch64", "ppc64le", "riscv64", "loongarch64", "s390x"}
Tokens == SupportedTokens \cup {"i386", "i686", "armhf", "mips64"}

\* the guest containers probed: their libc, the architecture token their
\* tools report, and how `ldd /bin/true` shows the dynamic loader
Guests ==
    [libc : {"musl"}, machine : Tokens, loader : {"direct"}]
    \cup [libc : {"glibc"}, machine : Tokens, loader : {"direct", "arrow"}]
    \cup [libc : {"glibc"}, machine : {"i386"}, loader : {"plain", "static"}]
    \cup [libc : {"none"}, machine : {"x86_64"}, loader : {"static"}]

NoGuest == [libc |-> "none", machine |-> "", loader |-> ""]

\* what `bash -c "ldd --version 2>&1"` prints in the guest, and its exit code
ldd_version(g) ==
    CASE g.libc = "musl" ->
            [stdout |-> "musl libc (" \o g.machine \o ")\nVersion 1.2.5\n"
                        \o "Dynamic Program Loader\nUsage: /lib/ld-musl-"
                        \o g.machine \o ".so.1 [options] [--] pathname\n",
             code |-> 1]
      [] g.libc = "glibc" ->
            [stdout |-> "ldd (GNU libc) 2.40\nCopyright (C) 2024 Free Software "
                        \o "Foundation, Inc.\nThis is free software; see the "
                        \o "source for copying conditions.\n",
             code |-> 0]
      [] OTHER ->
            [stdout |-> "bash: line 1: ldd: command not found\n", code |-> 127]

\* what `ldd /bin/true` prints in the guest, and its exit code
ldd_bin_true(g) ==
    CASE g.loader = "direct" ->
            [stdout |-> "\tlinux-vdso.so.1 (0x00007ffd)\n\tlibc.so.6 => "
                        \o "/lib64/libc.so.6 (0x00007f11)\n\t/lib64/ld-linux-"
                        \o g.machine \o ".so.2 (0x00007fce)\n",
             code |-> 0]
      [] g.loader = "arrow" ->
            [stdout |-> "\tlibc.so.6 => /lib64/libc.so.6 (0x00007f11)\n"
                        \o "\t/lib64/ld-linux-" \o g.machine
                        \o ".so.2 => /usr/lib64/ld-linux-" \o g.machine
                        \o ".so.2 (0x00007faa)\n",
             code |-> 0]
      [] g.loader = "plain" ->
            [stdout |-> "\tlibc.so.6 => /lib/libc.so.6 (0xf7c00000)\n"
                        \o "\t/lib/ld-linux.so.2 (0xf7f00000)\n",
             code |-> 0]
      [] OTHER ->
            [stdout |-> "\tnot a dynamic executable\n", code |-> 1]

\* mutant of exec_stdout_or_caught: the output of a probe that exits non-zero
\* is dropped
exec_stdout_strict(r) == IF r.code = 0 THEN r.stdout ELSE ""

\* try { (await guest.exec(...)).stdout } catch (e) { e.stdout }
exec_stdout_or_caught(r) == r.stdout

CharAt(s, j) == SubSeq(s, j, j)

\* the first position at or after from where pat occurs in s, 0 if none
IndexOf(s, pat, from) ==
    LET hits == {j \in from..(Len(s) - Len(pat) + 1) :
                    SubSeq(s, j, j + Len(pat) - 1) = pat}
    IN  IF hits = {} THEN 0 ELSE CHOOSE j \in hits : \A k \in hits : j <= k

\* the last position of the line that position j is on ("." matches no newline)
LineEnd(s, j) ==
    LET n == IndexOf(s, "\n", j) IN IF n = 0 THEN Len(s) ELSE n - 1

\* the last position in from..to that holds ch, 0 if none
LastIn(s, ch, from, to) ==
    LET hits == {j \in from..to : CharAt(s, j) = ch}
    IN  IF hits = {} THEN 0 ELSE CHOOSE j \in hits : \A k \in hits : j >= k

\* s.match(/musl libc \((.+)\)/): capture group 1, "" when there is no match
RECURSIVE MatchMuslFrom(_, _)
MatchMuslFrom(s, from) ==
    LET j == IndexOf(s, "musl libc (", from)
    IN  IF j = 0
        THEN ""
        ELSE LET b == j + Len("musl libc (")
                 c == LastIn(s, ")", b + 1, LineEnd(s, b))
             IN  IF c # 0 THEN SubSeq(s, b, c - 1)
                 ELSE MatchMuslFrom(s, j + 1)

MatchMusl(s) == MatchMuslFrom(s, 1)

\* s.match(/Free Software Foundation/) is not null
MatchGlibc(s) == IndexOf(s, "Free Software Foundation", 1) # 0

\* s.match(/ld-linux-([^.]+)\.so/): capture group 1, "" when there is no match
RECURSIVE MatchLoaderFrom(_, _)
MatchLoaderFrom(s, from) ==
    LET j == IndexOf(s, "ld-linux-", from)
    IN  IF j = 0
        THEN ""
        ELSE LET b == j + Len("ld-linux-")
                 d == IndexOf(s, ".", b)
             IN  IF d > b /\ IndexOf(s, ".so", d) = d
                 THEN SubSeq(s, b, d - 1)
                 ELSE MatchLoaderFrom(s, j + 1)

MatchLoader(s) == MatchLoaderFrom(s, 1)

\* mutant of linux_arch_to_nodejs_arch: 32 bit x86 is mapped to ia32
linux_arch_to_nodejs_arch_ia32(a) ==
    CASE a \in {"x86_64", "x86-64", "amd64"} -> [threw |-> FALSE, value |-> "x64"]
      [] a \in {"i386", "i686"} -> [threw |-> FALSE, value |-> "ia32"]
      [] a \in {"armv7l", "armv8l"} -> [threw |-> FALSE, value |-> "armhf"]
      [] a \in {"arm64", "aarch64"} -> [threw |-> FALSE, value |-> "arm64"]
      [] a = "ppc64le" -> [threw |-> FALSE, value |-> "ppc64le"]
      [] a = "riscv64" -> [threw |-> FALSE, value |-> "riscv64"]
      [] a = "loongarch64" -> [threw |-> FALSE, value |-> "loong64"]
      [] a = "s390x" -> [threw |-> FALSE, value |-> "s390x"]
      [] OTHER -> [threw |-> TRUE, value |-> "unsupported linux arch " \o a]

\* linux_arch_to_nodejs_arch: the switch; threw = the function throws value
linux_arch_to_nodejs_arch(a) ==
    CASE a \in {"x86_64", "x86-64", "amd64"} -> [threw |-> FALSE, value |-> "x64"]
      [] a \in {"i386", "i686"} ->
            [threw |-> TRUE, value |-> "32 bit x86 is not supported"]
      [] a \in {"armv7l", "armv8l"} -> [threw |-> FALSE, value |-> "armhf"]
      [] a \in {"arm64", "aarch64"} -> [threw |-> FALSE, value |-> "arm64"]
      [] a = "ppc64le" -> [threw |-> FALSE, value |-> "ppc64le"]
      [] a = "riscv64" -> [threw |-> FALSE, value |-> "riscv64"]
      [] a = "loongarch64" -> [threw |-> FALSE, value |-> "loong64"]
      [] a = "s390x" -> [threw |-> FALSE, value |-> "s390x"]
      [] OTHER -> [threw |-> TRUE, value |-> "unsupported linux arch " \o a]

\* --------------------------------------------- identifiers and install path
\* the entries of _VSCODE_PRODUCT_JSON that config.ts reads: a stable release
\* of the old numbering (version and release), a stable release of the new
\* numbering (no release), and an insider build of each
ProductInfo(q, v, r) ==
    [quality |-> q, version |-> v, release |-> r,
     serverApplicationName |->
         IF q = "insider" THEN "codium-server-insiders" ELSE "codium-server",
     serverDataFolderName |->
         IF q = "insider" THEN ".vscodium-server-insiders"
                          ELSE ".vscodium-server"]

Products == {ProductInfo("stable", "1.98.2", "25078"),
             ProductInfo("stable", "1.99.32562", ""),
             ProductInfo("insider", "1.98.0-insider", "25070"),
             ProductInfo("insider", "1.99.02562-insider", "")}

NoProduct == ProductInfo("stable", "", "")

\* what detect_platform can return, and container names, some of which
\* look like a part of an identifier
OsFamilies == {"linux", "alpine"}
TargetArchs == {"x64", "arm64"}
ContainerNames == {"box", "box-x64", "x64-box"}
Targets == [os : OsFamilies, arch : TargetArchs, name : ContainerNames]
NoTarget == [os |-> "", arch |-> "", name |-> ""]
TargetIds == 1..NumTargets

\* String.prototype.replace(pattern, by) with a string pattern: the first
\* occurrence only
replace(s, pat, by) ==
    LET j == IndexOf(s, pat, 1)
    IN  IF j = 0 THEN s
        ELSE SubSeq(s, 1, j - 1) \o by \o SubSeq(s, j + Len(pat), Len(s))

\* env[v]: undefined is formatted as "undefined" by replace
Lookup(env, v) == IF v \in DOMAIN env THEN env[v] ELSE "undefined"

\* template.replace(/\${(.*?)}/g, (_, v) => env[v]): from left to right,
\* every "${", up to the nearest "}" on the same line, is replaced by the
\* value of the variable named in between
RECURSIVE fill_template_from(_, _, _)
fill_template_from(template, env, from) ==
    LET s == IndexOf(template, "${", from)
        e == IF s = 0 THEN 0 ELSE IndexOf(template, "}", s + 2)
    IN  IF s = 0 THEN SubSeq(template, from, Len(template))
        ELSE IF e = 0 \/ e > LineEnd(template, s)
        THEN SubSeq(template, from, s) \o
             fill_template_from(template, env, s + 1)
        ELSE SubSeq(template, from, s - 1) \o
             Lookup(env, SubSeq(template, s + 2, e - 1)) \o
             fill_template_from(template, env, e + 1)

fill_template(template, env) == fill_template_from(template, env, 1)

INSIDER_SYSTEM_ID_TEMPLATE == "${os}-${arch}-${version}${maybe_release}-insider"
STABLE_SYSTEM_ID_TEMPLATE == "${os}-${arch}-${version}${maybe_release}"

\* _VSCODE_PRODUCT_JSON.release ? `.${release}` : ""
maybe_release == IF VSCODE_PRODUCT_JSON.release # ""
                 THEN "." \o VSCODE_PRODUCT_JSON.release ELSE ""

server_identifier(o, a) ==
    LET info == [version |-> replace(VSCODE_PRODUCT_JSON.version,
                                     "-insider", ""),
                 maybe_release |-> maybe_release,
                 os |-> o,
                 arch |-> a]
    IN  CASE VSCODE_PRODUCT_JSON.quality = "insider" ->
                 fill_template(INSIDER_SYSTEM_ID_TEMPLATE, info)
          [] VSCODE_PRODUCT_JSON.quality = "stable" ->
                 fill_template(STABLE_SYSTEM_ID_TEMPLATE, info)

session_identifier_no_name(o, a, container_name) == server_identifier(o, a)

session_identifier(o, a, container_name) ==
    server_identifier(o, a) \o "-" \o container_name

DEFAULT_INSTALL_PATH_TEMPLATE ==
    "${serverDataFolderName}/bin/vscodium-reh-${os}-${arch}-${version}${maybe_release}"

\* the values of the setting distroboxRemoteServer.install.pathTemplate:
\* "" stands for unset
PathTemplates == {"", "srv/${os}/${arch}/${version}${maybe_release}"}

server_install_path(o, a) ==
    LET template == IF pathTemplate # "" THEN pathTemplate
                    ELSE DEFAULT_INSTALL_PATH_TEMPLATE
        info == [os |-> o,
                 arch |-> a,
                 quality |-> VSCODE_PRODUCT_JSON.quality,
                 version |-> replace(VSCODE_PRODUCT_JSON.version,
                                     "-insider", ""),
                 release |-> VSCODE_PRODUCT_JSON.release,
                 serverApplicationName |->
                     VSCODE_PRODUCT_JSON.serverApplicationName,
                 serverDataFolderName |->
                     VSCODE_PRODUCT_JSON.serverDataFolderName,
                 maybe_release |-> maybe_release]
    IN  fill_template(template, info)

server_command_path_flat(o, a) ==
    server_install_path(o, a) \o "/" \o
    VSCODE_PRODUCT_JSON.serverApplicationName

server_command_path(o, a) ==
    server_install_path(o, a) \o "/bin/" \o
    VSCODE_PRODUCT_JSON.serverApplicationName

\* the file system under the persistent home: directories and regular files
NoFs == [dirs |-> {}, files |-> {}]

\* a path and the directories above it
Ancestors(path) ==
    {SubSeq(path, 1, j - 1) :
        j \in {k \in 2..Len(path) : CharAt(path, k) = "/"}}

\* the server bundle of the running product, as the comment of
\* install_server lays it out: bin/<serverApplicationName> below the root;
\* complete = FALSE is a download that tar rejects after the first member
Bundle(complete) ==
    [members |-> IF complete
                 THEN {"node", "bin/" \o VSCODE_PRODUCT_JSON.serverApplicationName}
                 ELSE {"node"},
     complete |-> complete]

\* [[ -f "$path" ]]
is_file(path) == path \in fs.files

\* mkdir -p "$SERVER_INSTALL_DIR"; exec tar -xz -C "$SERVER_INSTALL_DIR":
\* the file system afterwards
install_server(SERVER_INSTALL_DIR, artifact) ==
    LET extracted == {SERVER_INSTALL_DIR \o "/" \o m : m \in artifact.members}
    IN  [dirs |-> fs.dirs \cup Ancestors(SERVER_INSTALL_DIR)
                    \cup {SERVER_INSTALL_DIR}
                    \cup UNION {Ancestors(f) : f \in extracted},
         files |-> fs.files \cup extracted]

\* the versions of the extension: the current one and its predecessor
CurrentVersion == "0.2.4"
Versions == {"0.2.3", CurrentVersion}

\* `${xdg_runtime_dir}/vscodium-reh-${system_identifier(os, arch)}-${guest.name}`
\* for the one target of the session
server_session_dir == "/run/user/1000/vscodium-reh-linux-x64-1.99.32562-box"

control_script_path_unversioned(c) == server_session_dir \o "/control.sh"

\* `${server_session_dir}/control-${packageJSON.version}.sh`
control_script_path(c) ==
    server_session_dir \o "/control-" \o version[c] \o ".sh"

\* dirname: the path up to its last slash
dirname(path) ==
    LET j == LastIn(path, "/", 1, Len(path))
    IN  IF j = 0 THEN "." ELSE IF j = 1 THEN "/" ELSE SubSeq(path, 1, j - 1)

\* SESSION_DIR="$(dirname "$(realpath "$0")")" in the script of caller c; the
\* session directory holds no symbolic links
SESSION_DIR(c) == dirname(control_script_path(c))

ScriptPaths == {control_script_path(c) : c \in Callers}

\* the control script of caller c's orchestrator exists
Deployed(c) == deployed[control_script_path(c)] # ""

\* guest.write_to_file(control_script_path, get_control_script(...))
write_control_script(c) ==
    [deployed EXCEPT ![control_script_path(c)] = version[c]]

\* every orchestrator is of the current version
OneVersion == version = [c \in Callers |-> CurrentVersion]

\* the orchestrator is not computing identifiers or installing
NoConfig ==
    /\ VSCODE_PRODUCT_JSON = NoProduct
    /\ pathTemplate = ""
    /\ target = [k \in TargetIds |-> NoTarget]
    /\ ident = [k \in TargetIds |-> ""]
    /\ fs = NoFs
    /\ done = [k \in TargetIds |-> 0]

\* no detection in progress
NoDetect ==
    /\ guest = NoGuest
    /\ dpc = "none"
    /\ execs = 0
    /\ ldd_info = ""
    /\ os = ""
    /\ arch = ""
    /\ thrown = ""

\* ------------------------------------------------------------------- Init
SessionInit ==
    /\ present = {}
    /\ val = NoFiles
    /\ logExists \in BOOLEAN
    /\ log \in (IF logExists THEN {0} \cup Ports ELSE {0})
    /\ lock = 0
    /\ deployed \in {f \in [ScriptPaths -> Versions \cup {""}] :
                        \A c \in Callers :
                            f[control_script_path(c)] \in {"", version[c]}}
    /\ installed \in BOOLEAN
    /\ stage = [k \in Launches |-> "unused"]
    /\ live = {}
    /\ lport = [k \in Launches |-> 0]
    /\ pc = [c \in Callers |-> "idle"]
    /\ op = [c \in Callers |-> "none"]
    /\ attempt = [c \in Callers |-> 0]
    /\ i = [c \in Callers |-> 0]
    /\ PORT = [c \in Callers |-> 0]
    /\ PID1 = [c \in Callers |-> 0]
    /\ connOut = [c \in Callers |-> ""]
    /\ out = [c \in Callers |-> ""]
    /\ result = [c \in Callers |-> NoResult]
    /\ registered = [c \in Callers |-> 0]
    /\ disconnects = [c \in Callers |-> 0]
    /\ installs = [c \in Callers |-> 0]
    /\ launched = [c \in Callers |-> {}]
    /\ incs = [c \in Callers |-> 0]
    /\ decs = [c \in Callers |-> 0]
    /\ fromEmpty = [c \in Callers |-> FALSE]
    /\ first = [c \in Callers |-> {}]
    /\ joined = [c \in Callers |-> 0]
    /\ clearpc = "idle"
    /\ stops = 0

Init == OneVersion /\ SessionInit /\ NoDetect /\ NoConfig

\* ------------------------------------------- the launched server process
\* the background job opens >"$LOG_FILE" (truncating it) and execs the
\* server command, a wrapper script that launches the real server (node);
\* with no server installed the exec fails and the job exits
ServerExec(k) ==
    /\ stage[k] = "forked"
    /\ WrapperPid(k) \in live
    /\ logExists' = TRUE
    /\ log' = 0
    /\ IF installed
       THEN /\ stage' = [stage EXCEPT ![k] = "worker"]
            /\ live' = live \cup {WorkerPid(k)}
            /\ lport' = lport
       ELSE Die({WrapperPid(k)})
    /\ UNCHANGED <<configVars, detectVars, joined, first, stops,
                   dirVars, lock, deployed, installed, pc, op, attempt,
                   shellVars, histVars, clearpc, ghostVars>>

\* the server binds a free port (--port 0) and logs
\* "Extension host agent listening on <port>"
ServerListen(k) ==
    /\ stage[k] = "worker"
    /\ WorkerPid(k) \in live
    /\ \E p \in FreePorts :
        /\ lport' = [lport EXCEPT ![k] = p]
        /\ log' = p
    /\ stage' = [stage EXCEPT ![k] = "listening"]
    /\ UNCHANGED <<configVars, detectVars, joined, first, stops,
                   dirVars, logExists, lock, deployed, installed, live,
                   pc, op, attempt, shellVars, histVars, clearpc, ghostVars>>

\* a process dies on its own
Crash(p) ==
    /\ p \in live
    /\ Die({p})
    /\ UNCHANGED <<configVars, detectVars, joined, first, stops,
                   dirVars, logExists, log, lock, deployed, installed,
                   pc, op, attempt, shellVars, histVars, clearpc, ghostVars>>

\* ------------------------------------------------------ the control script
\* synchronized-start / synchronized-disconnect: flock -o "$SESSION_DIR" ...
AcquireLock(c) ==
    /\ pc[c] = "lockwait"
    /\ lock = 0
    /\ lock' = c
    /\ pc' = [pc EXCEPT ![c] = IF op[c] = "synchronized-start"
                               THEN "connect" ELSE "disconnect"]
    /\ UNCHANGED <<configVars, detectVars, joined, first, stops,
                   dirVars, logExists, log, deployed, installed, procVars,
                   op, attempt, shellVars, histVars, clearpc, ghostVars>>

\* mutant of connect_server_output: nothing is printed for a stale session
connect_server_output_silent ==
    IF "pid2" \in present /\ Alive(val.pid2)
    THEN IF Lsof(Cat("port")) # Cat("pid2")
         THEN ""
         ELSE IF "port" \in present THEN PortText(val.port) ELSE ""
    ELSE "NOT RUNNING"

\* mutant of connect_server_output: the listening check is left out
connect_server_output_no_lsof ==
    IF "pid2" \in present /\ Alive(val.pid2)
    THEN IF "port" \in present THEN PortText(val.port) ELSE ""
    ELSE "NOT RUNNING"

\* connect_server: what it prints
connect_server_output ==
    IF "pid2" \in present /\ Alive(val.pid2)
    THEN IF Lsof(Cat("port")) # Cat("pid2")
         THEN "STALE"
         ELSE IF "port" \in present THEN PortText(val.port) ELSE ""
    ELSE "NOT RUNNING"

\* mutant of connect_server: the raised count is not written back
connect_server_no_count ==
    IF "pid2" \in present /\ Alive(val.pid2)
    THEN IF Lsof(Cat("port")) # Cat("pid2")
         THEN stop_server
         ELSE UNCHANGED <<present, val, procVars>>
    ELSE UNCHANGED <<present, val, procVars>>

\* mutant of connect_server: a session found running is reclaimed
connect_server_reclaims ==
    IF "pid2" \in present /\ Alive(val.pid2)
    THEN stop_server
    ELSE UNCHANGED <<present, val, procVars>>

\* connect_server: what it does to the session
connect_server ==
    IF "pid2" \in present /\ Alive(val.pid2)
    THEN IF Lsof(Cat("port")) # Cat("pid2")
         THEN stop_server
         ELSE /\ present' = present \cup {"count"}
              /\ val' = [val EXCEPT !.count = Cat("count") + 1]
              /\ UNCHANGED procVars
    ELSE UNCHANGED <<present, val, procVars>>

\* connect_or_start_server, first half: PORT=$(connect_server)
ConnectOrStart(c) ==
    /\ pc[c] = "connect"
    /\ connect_server
    /\ connOut' = [connOut EXCEPT ![c] = connect_server_output]
    /\ IF IsNumeric(connect_server_output)
       THEN /\ out' = [out EXCEPT ![c] = connect_server_output]
            /\ pc' = [pc EXCEPT ![c] = "exit"]
            /\ incs' = [incs EXCEPT ![c] = @ + 1]
            /\ joined' = [joined EXCEPT ![c] = Cat("pid2")]
       ELSE /\ out' = out
            /\ pc' = [pc EXCEPT ![c] = "start"]
            /\ incs' = incs
            /\ joined' = joined
    /\ UNCHANGED <<configVars, detectVars, first, stops,
                   logExists, log, lock, deployed, installed, op, attempt, i,
                   PORT, PID1, launched, histVars, clearpc, decs, fromEmpty>>

\* start_server: nohup "$SERVER_COMMAND" ... >"$LOG_FILE" 2>&1 & ; PID1=$!
StartLaunch(c) ==
    /\ pc[c] = "start"
    /\ \E k \in Launches :
        /\ stage[k] = "unused"
        /\ \A j \in Launches : j < k => stage[j] # "unused"
        /\ stage' = [stage EXCEPT ![k] = "forked"]
        /\ live' = live \cup {WrapperPid(k)}
        /\ PID1' = [PID1 EXCEPT ![c] = WrapperPid(k)]
        /\ launched' = [launched EXCEPT ![c] = @ \cup {k}]
    /\ i' = [i EXCEPT ![c] = 0]
    /\ fromEmpty' = [fromEmpty EXCEPT ![c] = (present = {} /\ ~logExists)]
    /\ pc' = [pc EXCEPT ![c] = "poll"]
    /\ UNCHANGED <<configVars, detectVars, joined, first, stops,
                   dirVars, logExists, log, lock, deployed, installed, lport,
                   op, attempt, PORT, connOut, out, histVars, clearpc, incs,
                   decs>>

\* start_server: one iteration of the loop that reads the marker from the log
Poll(c) ==
    /\ pc[c] = "poll"
    /\ PORT' = [PORT EXCEPT ![c] = log]
    /\ IF log # 0
       THEN /\ i' = i
            /\ pc' = [pc EXCEPT ![c] = "finish"]
       ELSE /\ i' = [i EXCEPT ![c] = @ + 1]
            /\ pc' = [pc EXCEPT ![c] = IF i[c] + 1 < AttemptBudget
                                       THEN "poll" ELSE "finish"]
    /\ UNCHANGED <<configVars, detectVars, joined, first, stops,
                   dirVars, logExists, log, lock, deployed, installed,
                   procVars, op, attempt, PID1, connOut, out, launched,
                   histVars, clearpc, ghostVars>>

\* mutant of start_server_finish: no cleanup when the marker never appeared
start_server_finish_no_cleanup(c) ==
    IF PORT[c] # 0
    THEN /\ present' = Files
         /\ val' = [count |-> 1, pid1 |-> PID1[c], pid2 |-> PsChild(PID1[c]),
                    port |-> PORT[c]]
         /\ UNCHANGED procVars
         /\ out' = [out EXCEPT ![c] = PortText(PORT[c])]
         /\ incs' = [incs EXCEPT ![c] = @ + 1]
    ELSE /\ UNCHANGED <<present, val, procVars>>
         /\ out' = [out EXCEPT ![c] = "ERROR"]
         /\ incs' = incs

\* start_server, after the loop: record the session or clean up
start_server_finish(c) ==
    IF PORT[c] # 0
    THEN /\ present' = Files
         /\ val' = [count |-> 1, pid1 |-> PID1[c], pid2 |-> PsChild(PID1[c]),
                    port |-> PORT[c]]
         /\ UNCHANGED procVars
         /\ out' = [out EXCEPT ![c] = PortText(PORT[c])]
         /\ incs' = [incs EXCEPT ![c] = @ + 1]
    ELSE /\ stop_server
         /\ out' = [out EXCEPT ![c] = "ERROR"]
         /\ incs' = incs

StartFinish(c) ==
    /\ pc[c] = "finish"
    /\ start_server_finish(c)
    /\ joined' = [joined EXCEPT ![c] = IF PORT[c] # 0 THEN PsChild(PID1[c])
                                                     ELSE @]
    /\ pc' = [pc EXCEPT ![c] = "exit"]
    /\ UNCHANGED <<configVars, detectVars, first, stops,
                   logExists, log, lock, deployed, installed,
                   op, attempt, i, PORT, PID1, connOut, launched, histVars,
                   clearpc, decs, fromEmpty>>

\* mutant of disconnect_server: the server is not stopped at count zero
disconnect_server_no_stop(c) ==
    IF "count" \in present
    THEN /\ present' = present
         /\ val' = [val EXCEPT !.count = @ - 1]
         /\ UNCHANGED procVars
         /\ out' = out
         /\ decs' = [decs EXCEPT ![c] = @ + 1]
    ELSE /\ UNCHANGED <<present, val, procVars>>
         /\ out' = [out EXCEPT ![c] = "NOT CONNECTED"]
         /\ decs' = decs

\* mutant of disconnect_server: the server is stopped whoever else is connected
disconnect_server_stops_at_once(c) ==
    IF "count" \in present
    THEN /\ stop_server
         /\ out' = out
         /\ decs' = [decs EXCEPT ![c] = @ + 1]
    ELSE /\ UNCHANGED <<present, val, procVars>>
         /\ out' = [out EXCEPT ![c] = "NOT CONNECTED"]
         /\ decs' = decs

\* mutant of disconnect_server: the count file is not tested for
disconnect_server_unchecked(c) ==
    /\ IF Cat("count") - 1 = 0
       THEN stop_server
       ELSE /\ present' = present \cup {"count"}
            /\ val' = [val EXCEPT !.count = Cat("count") - 1]
            /\ UNCHANGED procVars
    /\ out' = out
    /\ decs' = [decs EXCEPT ![c] = @ + 1]

\* disconnect_server 0
disconnect_server(c) ==
    IF "count" \in present
    THEN /\ IF val.count - 1 = 0
            THEN stop_server
            ELSE /\ present' = present
                 /\ val' = [val EXCEPT !.count = @ - 1]
                 /\ UNCHANGED procVars
         /\ out' = out
         /\ decs' = [decs EXCEPT ![c] = @ + 1]
    ELSE /\ UNCHANGED <<present, val, procVars>>
         /\ out' = [out EXCEPT ![c] = "NOT CONNECTED"]
         /\ decs' = decs

Disconnect(c) ==
    /\ pc[c] = "disconnect"
    /\ disconnect_server(c)
    /\ pc' = [pc EXCEPT ![c] = "exit"]
    /\ UNCHANGED <<configVars, detectVars, joined, first, stops,
                   logExists, log, lock, deployed, installed,
                   op, attempt, i, PORT, PID1, connOut, launched, histVars,
                   clearpc, incs, fromEmpty>>

\* mutant of Exit: flock without -o, the launched server inherits the
\* descriptor and the lock stays held while a launched process is alive
Exit_lock_inherited(c) ==
    /\ pc[c] = "exit"
    /\ lock' = IF lock = c /\ live = {} THEN 0 ELSE lock
    /\ pc' = [pc EXCEPT ![c] = IF op[c] = "synchronized-start"
                               THEN "returned" ELSE "idle"]
    /\ i' = [i EXCEPT ![c] = 0]
    /\ PORT' = [PORT EXCEPT ![c] = 0]
    /\ PID1' = [PID1 EXCEPT ![c] = 0]
    /\ connOut' = [connOut EXCEPT ![c] = ""]
    /\ launched' = [launched EXCEPT ![c] = {}]
    /\ fromEmpty' = [fromEmpty EXCEPT ![c] = FALSE]
    /\ IF op[c] = "synchronized-start"
       THEN UNCHANGED <<out, result, registered, disconnects, incs, decs>>
       ELSE /\ out' = [out EXCEPT ![c] = ""]
            /\ result' = [result EXCEPT ![c] = NoResult]
            /\ registered' = [registered EXCEPT ![c] = 0]
            /\ disconnects' = [disconnects EXCEPT ![c] = 0]
            /\ incs' = [incs EXCEPT ![c] = 0]
            /\ decs' = [decs EXCEPT ![c] = 0]
    /\ op' = [op EXCEPT ![c] = "none"]
    /\ first' = [first EXCEPT ![c] =
                    IF /\ op[c] = "synchronized-start"
                       /\ attempt[c] = 1
                       /\ ParseInt(out[c]) = NaN
                    THEN launched[c] ELSE {}]
    /\ joined' = [joined EXCEPT ![c] = IF op[c] = "synchronized-start"
                                       THEN @ ELSE 0]
    /\ UNCHANGED <<configVars, detectVars, stops,
                   dirVars, logExists, log, deployed, installed, procVars,
                   attempt, installs, clearpc>>

\* the command run under flock exits and flock releases the lock
Exit(c) ==
    /\ pc[c] = "exit"
    /\ lock' = IF lock = c THEN 0 ELSE lock
    /\ pc' = [pc EXCEPT ![c] = IF op[c] = "synchronized-start"
                               THEN "returned" ELSE "idle"]
    /\ i' = [i EXCEPT ![c] = 0]
    /\ PORT' = [PORT EXCEPT ![c] = 0]
    /\ PID1' = [PID1 EXCEPT ![c] = 0]
    /\ connOut' = [connOut EXCEPT ![c] = ""]
    /\ launched' = [launched EXCEPT ![c] = {}]
    /\ fromEmpty' = [fromEmpty EXCEPT ![c] = FALSE]
    /\ IF op[c] = "synchronized-start"
       THEN UNCHANGED <<out, result, registered, disconnects, incs, decs>>
       ELSE /\ out' = [out EXCEPT ![c] = ""]
            /\ result' = [result EXCEPT ![c] = NoResult]
            /\ registered' = [registered EXCEPT ![c] = 0]
            /\ disconnects' = [disconnects EXCEPT ![c] = 0]
            /\ incs' = [incs EXCEPT ![c] = 0]
            /\ decs' = [decs EXCEPT ![c] = 0]
    /\ op' = [op EXCEPT ![c] = "none"]
    /\ first' = [first EXCEPT ![c] =
                    IF /\ op[c] = "synchronized-start"
                       /\ attempt[c] = 1
                       /\ ParseInt(out[c]) = NaN
                    THEN launched[c] ELSE {}]
    /\ joined' = [joined EXCEPT ![c] = IF op[c] = "synchronized-start"
                                       THEN @ ELSE 0]
    /\ UNCHANGED <<configVars, detectVars, stops,
                   dirVars, logExists, log, deployed, installed, procVars,
                   attempt, installs, clearpc>>

\* ------------------------------------------------------------------ resolve
\* what `!guest.is_file(path)` evaluates to: is_file is async and is not
\* awaited, so the operand is a Promise object and its negation is false
not_is_file_promise == FALSE

\* return new vscode.ResolvedAuthority("localhost", port)
resolved_authority(p) == [kind |-> "endpoint", host |-> "localhost", port |-> p]

\* mutant of temporarily_not_available: a plain exception is thrown
plain_error == [kind |-> "error", host |-> "", port |-> 0]

\* throw vscode.RemoteAuthorityResolverError.TemporarilyNotAvailable(...)
temporarily_not_available ==
    [kind |-> "TemporarilyNotAvailable", host |-> "", port |-> 0]

\* mutant of detect_error: the failure is reported as retryable
detect_error_retryable ==
    [kind |-> "TemporarilyNotAvailable", host |-> "", port |-> 0]

\* an exception of detect_platform leaves resolve as it is
detect_error == [kind |-> "error", host |-> "", port |-> 0]

\* an exception of download_server_tarball or of the install command leaves
\* resolve as it is
install_error == [kind |-> "error", host |-> "", port |-> 0]

\* mutant of register: the endpoint is returned without a release callback
register_no_callback(c) ==
    /\ registered' = registered
    /\ result' = [result EXCEPT ![c] = resolved_authority(ParseInt(out[c]))]
    /\ pc' = [pc EXCEPT ![c] = "resolved"]
    /\ attempt' = [attempt EXCEPT ![c] = 0]
    /\ out' = [out EXCEPT ![c] = ""]

\* if (!isNaN(port)): push the release callback and return the endpoint
register(c) ==
    /\ registered' = [registered EXCEPT ![c] = @ + 1]
    /\ result' = [result EXCEPT ![c] = resolved_authority(ParseInt(out[c]))]
    /\ pc' = [pc EXCEPT ![c] = "resolved"]
    /\ attempt' = [attempt EXCEPT ![c] = 0]
    /\ out' = [out EXCEPT ![c] = ""]

\* resolve, up to the optimistic attempt: detect_platform may throw; exec of
\* the control script throws when the script is not there, which is caught
ResolveBegin(c) ==
    /\ pc[c] = "idle"
    /\ registered' = [registered EXCEPT ![c] = 0]
    /\ disconnects' = [disconnects EXCEPT ![c] = 0]
    /\ installs' = [installs EXCEPT ![c] = 0]
    /\ launched' = [launched EXCEPT ![c] = {}]
    /\ incs' = [incs EXCEPT ![c] = 0]
    /\ decs' = [decs EXCEPT ![c] = 0]
    /\ out' = [out EXCEPT ![c] = ""]
    /\ connOut' = [connOut EXCEPT ![c] = ""]
    /\ joined' = [joined EXCEPT ![c] = 0]
    /\ \E detected \in BOOLEAN :
        IF detected
        THEN /\ result' = [result EXCEPT ![c] = NoResult]
             /\ attempt' = [attempt EXCEPT ![c] = 1]
             /\ IF Deployed(c)
                THEN /\ op' = [op EXCEPT ![c] = "synchronized-start"]
                     /\ pc' = [pc EXCEPT ![c] = "lockwait"]
                ELSE /\ op' = [op EXCEPT ![c] = "none"]
                     /\ pc' = [pc EXCEPT ![c] = "prepare"]
        ELSE /\ result' = [result EXCEPT ![c] = detect_error]
             /\ attempt' = [attempt EXCEPT ![c] = 0]
             /\ op' = [op EXCEPT ![c] = "none"]
             /\ pc' = pc
    /\ UNCHANGED <<configVars, detectVars, first, stops,
                   dirVars, logExists, log, lock, deployed, installed,
                   procVars, i, PORT, PID1, clearpc, fromEmpty>>

\* mutant of AfterFirst: the fallback runs whatever the first attempt printed
AfterFirst_always_prepares(c) ==
    /\ pc[c] = "returned"
    /\ attempt[c] = 1
    /\ pc' = [pc EXCEPT ![c] = "prepare"]
    /\ UNCHANGED <<registered, result, attempt, out>>
    /\ UNCHANGED <<configVars, detectVars, joined, first, stops,
                   dirVars, logExists, log, lock, deployed, installed,
                   procVars, op, i, PORT, PID1, connOut, launched, disconnects,
                   installs, clearpc, ghostVars>>

\* port = parseInt(output.stdout) of the optimistic attempt
AfterFirst(c) ==
    /\ pc[c] = "returned"
    /\ attempt[c] = 1
    /\ IF ParseInt(out[c]) = NaN
       THEN /\ pc' = [pc EXCEPT ![c] = "prepare"]
            /\ UNCHANGED <<registered, result, attempt, out>>
       ELSE register(c)
    /\ UNCHANGED <<configVars, detectVars, joined, first, stops,
                   dirVars, logExists, log, lock, deployed, installed,
                   procVars, op, i, PORT, PID1, connOut, launched, disconnects,
                   installs, clearpc, ghostVars>>

\* the pessimistic fallback: write the control script, install the server
\* when the probe says it is missing, run synchronized-start again
Prepare(c) ==
    /\ pc[c] = "prepare"
    /\ deployed' = write_control_script(c)
    /\ \E ok \in BOOLEAN :
        IF not_is_file_promise /\ ~ok
        THEN /\ installs' = [installs EXCEPT ![c] = @ + 1]
             /\ result' = [result EXCEPT ![c] = install_error]
             /\ attempt' = [attempt EXCEPT ![c] = 0]
             /\ pc' = [pc EXCEPT ![c] = "idle"]
             /\ UNCHANGED <<installed, op, out>>
        ELSE /\ IF not_is_file_promise
                THEN /\ installs' = [installs EXCEPT ![c] = @ + 1]
                     /\ installed' = TRUE
                ELSE UNCHANGED <<installs, installed>>
             /\ attempt' = [attempt EXCEPT ![c] = 2]
             /\ op' = [op EXCEPT ![c] = "synchronized-start"]
             /\ out' = [out EXCEPT ![c] = ""]
             /\ pc' = [pc EXCEPT ![c] = "lockwait"]
             /\ result' = result
    /\ UNCHANGED <<configVars, detectVars, joined, first, stops,
                   dirVars, logExists, log, lock, procVars, i, PORT, PID1,
                   connOut, launched, registered, disconnects,
                   clearpc, ghostVars>>

\* port = parseInt(output.stdout) of the retry
AfterSecond(c) ==
    /\ pc[c] = "returned"
    /\ attempt[c] = 2
    /\ IF ParseInt(out[c]) = NaN
       THEN /\ result' = [result EXCEPT ![c] = temporarily_not_available]
            /\ pc' = [pc EXCEPT ![c] = "idle"]
            /\ attempt' = [attempt EXCEPT ![c] = 0]
            /\ out' = [out EXCEPT ![c] = ""]
            /\ registered' = registered
       ELSE register(c)
    /\ UNCHANGED <<configVars, detectVars, joined, first, stops,
                   dirVars, logExists, log, lock, deployed, installed,
                   procVars, op, i, PORT, PID1, connOut, launched,
                   disconnects, installs, clearpc, ghostVars>>

\* mutant of Dispose: the lock is taken before the grace delay
Dispose_takes_lock(c) ==
    /\ pc[c] = "resolved"
    /\ lock = 0
    /\ lock' = c
    /\ disconnects' = [disconnects EXCEPT ![c] = @ + 1]
    /\ op' = [op EXCEPT ![c] = "synchronized-disconnect"]
    /\ pc' = [pc EXCEPT ![c] = "sleep"]
    /\ UNCHANGED <<configVars, detectVars, joined, first, stops, dirVars, logExists, log, deployed,
                   installed, procVars, attempt, shellVars, result,
                   registered, installs, clearpc, ghostVars>>

\* dispose(): guest.exec(control_script_path, "synchronized-disconnect")
Dispose(c) ==
    /\ pc[c] = "resolved"
    /\ disconnects' = [disconnects EXCEPT ![c] = @ + 1]
    /\ op' = [op EXCEPT ![c] = "synchronized-disconnect"]
    /\ pc' = [pc EXCEPT ![c] = "sleep"]
    /\ UNCHANGED <<configVars, detectVars, joined, first, stops,
                   dirVars, logExists, log, lock, deployed, installed,
                   procVars, attempt, shellVars, result, registered, installs,
                   clearpc, ghostVars>>

\* synchronized-disconnect: sleep ${2:-5}, before flock is called
Sleep(c) ==
    /\ pc[c] = "sleep"
    /\ pc' = [pc EXCEPT ![c] = "lockwait"]
    /\ UNCHANGED <<configVars, detectVars, joined, first, stops,
                   dirVars, logExists, log, lock, deployed, installed,
                   procVars, op, attempt, shellVars, histVars, clearpc, ghostVars>>

\* ------------------------------------------- the manual recovery command
\* clear_command: DistroboxResolver.create writes the control script, then
\* clear_session_files runs `stop` (not under flock)
ClearCreate ==
    /\ clearpc = "idle"
    /\ stops < MaxStops
    /\ \E c \in Callers : deployed' = write_control_script(c)
    /\ clearpc' = "stop"
    /\ UNCHANGED <<configVars, detectVars, joined, first, stops,
                   dirVars, logExists, log, lock, installed, procVars, pc, op,
                   attempt, shellVars, histVars, ghostVars>>

ClearStop ==
    /\ clearpc = "stop"
    /\ stop_server
    /\ clearpc' = "idle"
    /\ stops' = stops + 1
    /\ UNCHANGED <<configVars, detectVars, joined, first,
                   logExists, log, lock, deployed, installed,
                   pc, op, attempt, shellVars, histVars, ghostVars>>

\* ------------------------------------------------------- detect_platform
\* everything detect_platform does not own
sessionVars == <<present, val, logExists, log, lock, deployed, installed,
                 stage, live, lport, pc, op, attempt, i, PORT, PID1, connOut,
                 out, result, registered, disconnects, installs, launched,
                 incs, decs, fromEmpty, first, joined, clearpc, stops>>

\* detect_platform is called on some guest
InitDetect ==
    /\ OneVersion
    /\ SessionInit
    /\ NoConfig
    /\ guest \in Guests
    /\ dpc = "start"
    /\ execs = 0
    /\ ldd_info = ""
    /\ os = ""
    /\ arch = ""
    /\ thrown = ""

\* guest.exec("bash", "-c", "ldd --version 2>&1") is issued
DetectProbe ==
    /\ dpc = "start"
    /\ execs' = execs + 1
    /\ dpc' = "await1"
    /\ UNCHANGED <<configVars, sessionVars, guest, ldd_info, os, arch, thrown>>

\* arch = linux_arch_to_nodejs_arch(...); return [os, arch], unless it throws
detect_return(osname, r) ==
    IF r.threw
    THEN /\ thrown' = r.value
         /\ dpc' = "failed"
         /\ UNCHANGED <<os, arch>>
    ELSE /\ os' = osname
         /\ arch' = r.value
         /\ dpc' = "done"
         /\ thrown' = thrown

\* the first probe has ended: classify the libc by its output
DetectClassify ==
    /\ dpc = "await1"
    /\ LET info == exec_stdout_or_caught(ldd_version(guest))
       IN  /\ ldd_info' = info
           /\ IF MatchMusl(info) # ""
              THEN /\ detect_return("alpine",
                                    linux_arch_to_nodejs_arch(MatchMusl(info)))
                   /\ execs' = execs
              ELSE IF MatchGlibc(info)
              THEN /\ execs' = execs + 1
                   /\ dpc' = "await2"
                   /\ UNCHANGED <<os, arch, thrown>>
              ELSE /\ thrown' = "distro's libc is neither musl nor glibc"
                   /\ dpc' = "failed"
                   /\ UNCHANGED <<execs, os, arch>>
    /\ UNCHANGED <<configVars, sessionVars, guest>>

\* guest.exec("ldd", "/bin/true") has ended: the loader's name gives the arch
DetectLoader ==
    /\ dpc = "await2"
    /\ LET r == ldd_bin_true(guest)
       IN  IF r.code # 0
           THEN /\ thrown' = "Command failed: ldd /bin/true"
                /\ dpc' = "failed"
                /\ UNCHANGED <<os, arch>>
           ELSE IF MatchLoader(r.stdout) = ""
           THEN /\ thrown' = "TypeError"
                /\ dpc' = "failed"
                /\ UNCHANGED <<os, arch>>
           ELSE detect_return("linux",
                              linux_arch_to_nodejs_arch(MatchLoader(r.stdout)))
    /\ UNCHANGED <<configVars, sessionVars, guest, execs, ldd_info>>

NextDetect ==
    \/ DetectProbe
    \/ DetectClassify
    \/ DetectLoader

\* detect_platform on every guest of Guests
SpecDetect == InitDetect /\ [][NextDetect]_vars

\* ------------------------------------- identifiers and install: the actions
\* some product, some setting, and targets that share one home directory
InitConfig ==
    /\ OneVersion
    /\ SessionInit
    /\ ~logExists
    /\ \A c \in Callers : ~Deployed(c)
    /\ ~installed
    /\ NoDetect
    /\ VSCODE_PRODUCT_JSON \in Products
    /\ pathTemplate \in PathTemplates
    /\ target \in [TargetIds -> Targets]
    /\ ident = [k \in TargetIds |-> ""]
    /\ fs = NoFs
    /\ done = [k \in TargetIds |-> 0]

\* resolve computes the session identifier of target k
Identify(k) ==
    /\ ident[k] = ""
    /\ ident' = [ident EXCEPT ![k] =
                    session_identifier(target[k].os, target[k].arch,
                                       target[k].name)]
    /\ UNCHANGED <<sessionVars, detectVars, VSCODE_PRODUCT_JSON, pathTemplate,
                   target, fs, done, version>>

\* the control script of target k runs install on an artifact; the
\* invocation completes when tar exits with 0
Install(k) ==
    /\ done[k] < MaxInstalls
    /\ \E complete \in BOOLEAN :
          /\ fs' = install_server(
                       server_install_path(target[k].os, target[k].arch),
                       Bundle(complete))
          /\ done' = [done EXCEPT ![k] = IF complete THEN @ + 1 ELSE @]
    /\ UNCHANGED <<sessionVars, detectVars, VSCODE_PRODUCT_JSON, pathTemplate,
                   target, ident, version>>

NextConfig ==
    \/ \E k \in TargetIds : Identify(k)
    \/ \E k \in TargetIds : Install(k)

\* identifiers and installs of the targets, for every product
SpecConfig == InitConfig /\ [][NextConfig]_vars

\* ------------------------------------------------------------ specifications
Next ==
    \/ \E k \in Launches : ServerExec(k)
    \/ \E k \in Launches : ServerListen(k)
    \/ \E p \in live : Crash(p)
    \/ \E c \in Callers : ResolveBegin(c)
    \/ \E c \in Callers : AfterFirst(c)
    \/ \E c \in Callers : Prepare(c)
    \/ \E c \in Callers : AfterSecond(c)
    \/ \E c \in Callers : Dispose(c)
    \/ \E c \in Callers : Sleep(c)
    \/ \E c \in Callers : AcquireLock(c)
    \/ \E c \in Callers : ConnectOrStart(c)
    \/ \E c \in Callers : StartLaunch(c)
    \/ \E c \in Callers : Poll(c)
    \/ \E c \in Callers : StartFinish(c)
    \/ \E c \in Callers : Disconnect(c)
    \/ \E c \in Callers : Exit(c)

\* the callers and the server processes; every script command runs under flock
Spec == Init /\ [][Next]_vars

NextClear ==
    \/ \E k \in Launches : ServerExec(k)
    \/ \E k \in Launches : ServerListen(k)
    \/ \E c \in Callers : ResolveBegin(c)
    \/ \E c \in Callers : AfterFirst(c)
    \/ \E c \in Callers : Prepare(c)
    \/ \E c \in Callers : AfterSecond(c)
    \/ \E c \in Callers : Dispose(c)
    \/ \E c \in Callers : Sleep(c)
    \/ \E c \in Callers : AcquireLock(c)
    \/ \E c \in Callers : ConnectOrStart(c)
    \/ \E c \in Callers : StartLaunch(c)
    \/ \E c \in Callers : Poll(c)
    \/ \E c \in Callers : StartFinish(c)
    \/ \E c \in Callers : Disconnect(c)
    \/ \E c \in Callers : Exit(c)
    \/ ClearCreate
    \/ ClearStop

\* the callers, the server processes (none dying on its own) and the manual
\* recovery command
SpecClear == Init /\ [][NextClear]_vars

\* a step of the control script process of caller c once it runs: bash goes
\* on to its next command
ScriptStep(c) ==
    \/ Sleep(c)
    \/ ConnectOrStart(c)
    \/ StartLaunch(c)
    \/ Poll(c)
    \/ StartFinish(c)
    \/ Disconnect(c)
    \/ Exit(c)

\* every script process keeps running, and a flock call that finds the lock
\* free again and again gets it in the end
Fairness ==
    \A c \in Callers : WF_vars(ScriptStep(c)) /\ SF_vars(AcquireLock(c))

\* the callers and the launched servers, none of which dies on its own
NextFair ==
    \/ \E k \in Launches : ServerExec(k)
    \/ \E k \in Launches : ServerListen(k)
    \/ \E c \in Callers : ResolveBegin(c)
    \/ \E c \in Callers : AfterFirst(c)
    \/ \E c \in Callers : Prepare(c)
    \/ \E c \in Callers : AfterSecond(c)
    \/ \E c \in Callers : Dispose(c)
    \/ \E c \in Callers : AcquireLock(c)
    \/ \E c \in Callers : ScriptStep(c)

\* the callers under fair scheduling of the script processes
SpecFair == Init /\ [][NextFair]_vars /\ Fairness

\* two orchestrators of different versions resolve the same target
InitVersions ==
    /\ version \in {v \in [Callers -> Versions] :
                        \E c, d \in Callers : v[c] # v[d]}
    /\ SessionInit
    /\ NoDetect
    /\ NoConfig

SpecVersions == InitVersions /\ [][NextFair]_vars

TypeOK ==
    /\ present \subseteq Files
    /\ lock \in 0..NumCallers
    /\ live \subseteq 1..(2 * MaxLaunch)
    /\ \A c \in Callers : i[c] \in 0..AttemptBudget

\* ------------------------------------------------------------------ claims
\* the script process of caller c is inside connect_server, start_server,
\* disconnect_server or stop_server
InOp(c) == pc[c] \in {"connect", "start", "poll", "finish", "disconnect"}

\* the worker of the recorded session is alive and is the process listening
\* on the recorded port
SessionAlive ==
    /\ {"port", "pid2"} \subseteq present
    /\ Alive(val.pid2)
    /\ Lsof(val.port) = val.pid2

\* the launch made by the start_server of caller c
LaunchOf(c) == CHOOSE k \in Launches : WrapperPid(k) = PID1[c]

\* C1: every connect, start, disconnect and stop on the session directory,
\* the stop of the manual recovery command included, runs with the lock held,
\* so that no two of them are in progress at the same time.
C1_MutualExclusion ==
    /\ \A c \in Callers : InOp(c) => lock = c
    /\ Cardinality({c \in Callers : InOp(c)})
         + (IF clearpc = "stop" THEN 1 ELSE 0) <= 1

\* C2: concurrent connect-or-start calls never leave two live server
\* processes for the one session.
C2_OneServer == Cardinality({k \in Launches : WorkerPid(k) \in live}) <= 1

\* C3: observed while the lock is free, the count is never negative, it is
\* zero or absent exactly when none of port, pid1, pid2, count exists, and it
\* is positive exactly when port, pid1 and pid2 all exist.
C3_Refcount ==
    lock = 0 =>
        /\ val.count >= 0
        /\ (Cat("count") = 0) <=> (present = {})
        /\ (Cat("count") > 0) <=> ({"port", "pid1", "pid2"} \subseteq present)

C3_Witness == lock = 0 /\ "count" \in present /\ val.count = 2

\* C4: while the session is alive, connect-or-start returns the recorded port,
\* raises the count by exactly one and launches no process.
C4_Idempotent ==
    [][\A c \in Callers :
        (pc[c] = "connect" /\ pc'[c] # "connect" /\ SessionAlive) =>
            /\ pc'[c] = "exit"
            /\ out'[c] = PortText(val.port)
            /\ val'.count = val.count + 1
            /\ val'.port = val.port /\ val'.pid1 = val.pid1
            /\ val'.pid2 = val.pid2
            /\ present' = present
            /\ live' = live /\ stage' = stage
            /\ launched'[c] = {}]_vars

C4_Witness ==
    \E c \in Callers :
        /\ pc[c] = "exit" /\ op[c] = "synchronized-start"
        /\ launched[c] = {} /\ SessionAlive
        /\ out[c] = PortText(val.port) /\ val.count = 2

\* C5, as stated: a resolve that returns an endpoint has raised the count once
\* and registered one release callback, a resolve that fails none; the
\* callback issues one disconnect, and that disconnect lowers the count
\* exactly once.
C5_ExactlyOneDecrement ==
    \A c \in Callers :
        /\ registered[c] = (IF result[c].kind = "endpoint" THEN 1 ELSE 0)
        /\ result[c].kind = "endpoint" => incs[c] = 1
        /\ disconnects[c] <= registered[c]
        /\ op[c] = "synchronized-disconnect" => disconnects[c] = 1
        /\ (pc[c] = "exit" /\ op[c] = "synchronized-disconnect") => decs[c] = 1

\* C5, amended: the same, but the one disconnect lowers the count once when
\* the count file still exists, and not at all (NOT CONNECTED) when the
\* session files were removed in the meantime.
C5_OneRelease ==
    \A c \in Callers :
        /\ registered[c] = (IF result[c].kind = "endpoint" THEN 1 ELSE 0)
        /\ result[c].kind = "endpoint" => incs[c] = 1
        /\ disconnects[c] <= registered[c]
        /\ op[c] = "synchronized-disconnect" => disconnects[c] = 1
        /\ decs[c] <= disconnects[c]
        /\ (pc[c] = "exit" /\ op[c] = "synchronized-disconnect") =>
               (decs[c] = IF out[c] = "NOT CONNECTED" THEN 0 ELSE 1)

C5_Witness ==
    \E c \in Callers :
        /\ pc[c] = "exit" /\ op[c] = "synchronized-disconnect"
        /\ registered[c] = 1 /\ disconnects[c] = 1 /\ decs[c] = 1

\* C6: resolve returns the endpoint ("localhost", the port the script
\* printed), and when neither attempt yields a port it fails with
\* TemporarilyNotAvailable, never with another error.
C6_ResolveOutcome ==
    [][\A c \in Callers :
        /\ (pc[c] = "returned" /\ pc'[c] = "resolved") =>
              /\ result'[c].kind = "endpoint"
              /\ result'[c].host = "localhost"
              /\ PortText(result'[c].port) = out[c]
        /\ (pc[c] = "returned" /\ attempt[c] = 2 /\ ~IsNumeric(out[c])) =>
              (pc'[c] = "returned" \/ result'[c] = temporarily_not_available)
        /\ (attempt[c] >= 1 /\ result'[c] # result[c]) =>
              result'[c].kind \in {"endpoint", "TemporarilyNotAvailable"}]_vars

C6_Witness ==
    \E c \in Callers : result[c].kind = "TemporarilyNotAvailable"

\* C7: the retry of connect-or-start is never issued with the server binary
\* absent and no install attempted.
C7_InstallBeforeRetry ==
    \A c \in Callers : attempt[c] = 2 => (installed \/ installs[c] >= 1)

C9_StartTimeout ==
    [][\A c \in Callers :
        (pc[c] = "finish" /\ pc'[c] = "exit" /\ PORT[c] = 0) =>
            /\ i[c] = AttemptBudget
            /\ out'[c] = "ERROR"
            /\ present' = {}]_vars

C9_Witness ==
    \E c \in Callers :
        /\ pc[c] = "exit" /\ out[c] = "ERROR" /\ i[c] = AttemptBudget
        /\ present = {}

\* C10: connect on a session whose files are present but whose recorded
\* supervisor (pid1) is dead prints NOT RUNNING and removes the state files.
C10_DeadSupervisor ==
    [][\A c \in Callers :
        (/\ pc[c] = "connect" /\ pc'[c] # "connect"
         /\ present = Files /\ ~Alive(val.pid1)) =>
            /\ connOut'[c] = "NOT RUNNING"
            /\ present' = {}]_vars

\* C11: a disconnect with grace 0 that finds the count at 1 takes it to zero
\* and stops the server: the process recorded in pid1 and the one recorded in
\* pid2 are both killed (and no other process), and the four state files are
\* removed.
C11_LastDisconnectStops ==
    [][\A c \in Callers :
        (/\ pc[c] = "disconnect" /\ pc'[c] = "exit"
         /\ "count" \in present /\ val.count = 1) =>
            /\ present' = {}
            /\ decs'[c] = decs[c] + 1
            /\ live' = live \ {Cat("pid1"), Cat("pid2")}]_vars

C11_Witness ==
    \E c \in Callers :
        /\ pc[c] = "exit" /\ op[c] = "synchronized-disconnect"
        /\ decs[c] = 1 /\ out[c] = ""
        /\ present = {} /\ live = {}
        /\ \E k \in Launches : stage[k] = "dead"

\* C12: stop can always run to its end, whatever the recorded pids are (dead,
\* empty or missing); after it none of port, pid1, pid2, count exists; and a
\* stop on a directory a stop has already cleaned changes nothing in it and
\* kills nothing.
C12_StopIdempotent ==
    /\ [](clearpc = "stop" => ENABLED ClearStop)
    /\ [][(clearpc = "stop" /\ clearpc' = "idle") =>
            /\ present' = {}
            /\ (present = {} =>
                    UNCHANGED <<present, val, logExists, log, deployed,
                                live, stage, lport>>)]_vars

C12_Witness ==
    /\ clearpc = "idle" /\ stops = 2
    /\ present = {} /\ installed
    /\ \E k \in Launches : stage[k] = "dead"

\* C13: a start run while the server binary is not installed prints
\* NOT INSTALLED, launches no process and creates, changes or removes no
\* state file.
C13_NotInstalled ==
    [][\A c \in Callers :
        (pc[c] = "start" /\ pc'[c] # "start" /\ ~installed) =>
            /\ pc'[c] = "exit"
            /\ out'[c] = "NOT INSTALLED"
            /\ UNCHANGED <<present, val, live, stage>>]_vars

\* C14: when connect ends in failure (NOT RUNNING, STALE) or start ends in
\* failure (ERROR), the files port, pid1, pid2 and count are left all present
\* or all absent, never some of them.
C14_AllOrNothing ==
    [][\A c \in Callers :
        /\ (pc[c] = "connect" /\ pc'[c] = "start") =>
              /\ connOut'[c] \in {"NOT RUNNING", "STALE"}
              /\ present' \in {{}, Files}
        /\ (pc[c] = "finish" /\ pc'[c] = "exit" /\ out'[c] = "ERROR") =>
              present' \in {{}, Files}]_vars

C14_Witness ==
    \E c \in Callers :
        /\ pc[c] = "start" /\ connOut[c] = "NOT RUNNING"
        /\ present = Files /\ ~Alive(val.pid2)

\* C15, as stated: the disconnect issued by resolve's release callback holds
\* the lock while it sleeps out its grace delay, so that no connect, start or
\* stop of another caller is in progress during the sleep.
C15_LockHeldDuringSleep ==
    \A c \in Callers :
        pc[c] = "sleep" =>
            /\ lock = c
            /\ \A d \in Callers \ {c} : ~InOp(d)

\* C15, amended: that disconnect sleeps before it takes the lock and holds
\* the lock only for the decrement (and the stop) that follows the sleep.
C15_SleepOutsideLock ==
    \A c \in Callers :
        /\ pc[c] = "sleep" => lock # c
        /\ pc[c] = "disconnect" => lock = c
        /\ (pc[c] = "exit" /\ op[c] = "synchronized-disconnect") => lock = c

C15_Witness ==
    \E c, d \in Callers :
        /\ pc[c] = "sleep" /\ op[c] = "synchronized-disconnect"
        /\ pc[d] = "poll" /\ lock = d

\* the decimal texts of the ports
PortTexts == {PortText(p) : p \in Ports}

C18_StaleRecovered ==
    [][\A c \in Callers :
        (/\ pc[c] = "finish" /\ pc'[c] = "exit"
         /\ \/ connOut[c] = "STALE"
            \/ connOut[c] = "NOT RUNNING" /\ present = Files
         /\ stage[LaunchOf(c)] = "listening") =>
            /\ present' = Files
            /\ val'.count = 1
            /\ val'.pid1 = WrapperPid(LaunchOf(c))
            /\ val'.pid2 = WorkerPid(LaunchOf(c))
            /\ val'.port = lport[LaunchOf(c)]
            /\ out'[c] = PortText(lport[LaunchOf(c)])]_vars

\* the architecture names of nodejs the mapping may return
NodeArchs == {"x64", "armhf", "arm64", "ppc64le", "riscv64", "loong64", "s390x"}

\* the detection has passed the guest's token to linux_arch_to_nodejs_arch
TokenMapped ==
    /\ dpc \in {"done", "failed"}
    /\ guest.libc \in {"musl", "glibc"}
    /\ guest.loader \in {"direct", "arrow"}

\* C19: for every supported raw token the mapping returns an architecture,
\* the same one for the same token; for the excluded tokens (i386, i686) and
\* for every token outside the table it throws and returns nothing.
C19_ArchMapping ==
    TokenMapped =>
        IF guest.machine \in SupportedTokens
        THEN /\ dpc = "done" /\ thrown = ""
             /\ arch \in NodeArchs
             /\ arch = linux_arch_to_nodejs_arch(guest.machine).value
        ELSE /\ dpc = "failed" /\ os = "" /\ arch = ""
             /\ thrown \in {"32 bit x86 is not supported",
                            "unsupported linux arch " \o guest.machine}

C19_Witness ==
    /\ TokenMapped /\ guest.machine = "i686"
    /\ dpc = "failed" /\ thrown = "32 bit x86 is not supported"

\* what detect_platform has to end with on the guest it was given
C20_Outcome ==
    dpc \in {"done", "failed"} =>
        /\ guest.libc = "musl" =>
              /\ execs = 1
              /\ ldd_version(guest).code # 0
              /\ IF linux_arch_to_nodejs_arch(guest.machine).threw
                 THEN dpc = "failed"
                 ELSE /\ dpc = "done" /\ os = "alpine"
                      /\ arch = linux_arch_to_nodejs_arch(guest.machine).value
        /\ guest.libc = "glibc" =>
              /\ execs = 2
              /\ IF guest.loader \in {"direct", "arrow"}
                    /\ ~linux_arch_to_nodejs_arch(guest.machine).threw
                 THEN /\ dpc = "done" /\ os = "linux"
                      /\ arch = linux_arch_to_nodejs_arch(guest.machine).value
                 ELSE dpc = "failed"
        /\ guest.libc = "none" =>
              /\ execs = 1
              /\ dpc = "failed"
              /\ thrown = "distro's libc is neither musl nor glibc"

\* C20: a musl signature in the first probe gives alpine and the architecture
\* of that same output, although the probe exits non-zero; a glibc signature
\* leads to exactly one second probe, whose loader name gives the
\* architecture; with neither signature detect fails; the guest's session
\* and processes are never changed.
C20_Detect ==
    /\ []C20_Outcome
    /\ [][UNCHANGED <<configVars, sessionVars, guest>>]_vars

C20_Witness ==
    /\ dpc = "done" /\ guest.libc = "musl" /\ guest.machine = "aarch64"
    /\ execs = 1 /\ os = "alpine" /\ arch = "arm64"


\* C21: the session identifier is a function of the product's version and
\* release and of the target's os family, architecture and name: targets with
\* the same inputs get the same identifier, targets whose (os family,
\* architecture) differ get different identifiers, and so do targets with the
\* same (os family, architecture) and different names.
C21_DistinctIdentifiers ==
    \A j, k \in TargetIds :
        (ident[j] # "" /\ ident[k] # "") =>
            /\ (target[j] = target[k] => ident[j] = ident[k])
            /\ (<<target[j].os, target[j].arch>>
                    # <<target[k].os, target[k].arch>> => ident[j] # ident[k])
            /\ ((/\ target[j].os = target[k].os
                 /\ target[j].arch = target[k].arch
                 /\ target[j].name # target[k].name) => ident[j] # ident[k])

\* two targets of one os family and architecture, with different names, have
\* both got their identifiers, the first one from an insider build
C21_Witness ==
    /\ target[1].os = target[2].os
    /\ target[1].arch = target[2].arch
    /\ target[1].name = "box"
    /\ target[2].name = "box-x64"
    /\ ident[1] = "linux-x64-1.99.02562-insider-box"
    /\ ident[2] = "linux-x64-1.99.02562-insider-box-x64"


C24_ConnectOnlyWhenAlive ==
    [][\A c \in Callers :
        (pc[c] = "connect" /\ pc'[c] # "connect") =>
            /\ lock = c
            /\ connOut'[c] \in PortTexts =>
                  (SessionAlive /\ connOut'[c] = PortText(val.port))
            /\ ~SessionAlive =>
                  /\ connOut'[c] \in {"NOT RUNNING", "STALE"}
                  /\ incs'[c] = incs[c]
                  /\ "count" \in present' =>
                        ("count" \in present /\ val'.count = val.count)]_vars

\* connect has answered NOT RUNNING on a session whose recorded worker is
\* dead, and has left the count as it was
C24_Witness ==
    \E c \in Callers :
        /\ pc[c] = "start"
        /\ lock = c
        /\ connOut[c] = "NOT RUNNING"
        /\ {"count", "pid2"} \subseteq present
        /\ ~Alive(val.pid2)
        /\ val.count = 1


\* caller a has released: its synchronized-disconnect is sleeping out the
\* grace delay or waiting for the lock, and has not decremented yet
Releasing(a) ==
    op[a] = "synchronized-disconnect" /\ pc[a] \in {"sleep", "lockwait"}

\* C25: when the only connected caller has released and another caller's
\* connect-or-start runs before the delayed decrement, the new caller gets
\* the recorded port and the count goes from 1 to 2 with nothing launched or
\* killed; the delayed decrement then takes the count from 2 to 1 and leaves
\* the server processes and the session files as they are.
C25_GraceReconnect ==
    [][\A a, b \in Callers :
        /\ (/\ a # b
            /\ Releasing(a)
            /\ SessionAlive
            /\ Cat("count") = 1
            /\ pc[b] = "connect"
            /\ pc'[b] # "connect")
              => /\ pc'[b] = "exit"
                 /\ out'[b] = PortText(val.port)
                 /\ val'.count = 2
                 /\ live' = live
                 /\ stage' = stage
                 /\ Releasing(a)'
        /\ (/\ pc[a] = "disconnect"
            /\ pc'[a] # "disconnect"
            /\ SessionAlive
            /\ Cat("count") = 2)
              => /\ val'.count = 1
                 /\ present' = present
                 /\ val'.port = val.port
                 /\ val'.pid2 = val.pid2
                 /\ live' = live
                 /\ SessionAlive']_vars

\* the first caller is sleeping out its grace delay, the second has connected
\* in the meantime: the count is 2 and the server is running
C25_Witness ==
    /\ pc[1] = "sleep"
    /\ disconnects[1] = 1
    /\ pc[2] = "exit"
    /\ op[2] = "synchronized-start"
    /\ launched[2] = {}
    /\ SessionAlive
    /\ val.count = 2
    /\ out[2] = PortText(val.port)


\* the launches of the model are used up and a start_server is waiting for one
OutOfLaunches ==
    /\ \A k \in Launches : stage[k] # "unused"
    /\ \E c \in Callers : pc[c] = "start"

\* C26: every control script command that has taken the lock ends and gives
\* the lock back, whether or not a server it launched is still running;
\* start_server polls at most AttemptBudget times and then prints a port or
\* ERROR; a caller waiting for the lock gets it; waiting for the lock yields
\* no output and no error.
C26_Terminates ==
    /\ \A c \in Callers : (lock = c) ~> (lock # c \/ OutOfLaunches)
    /\ \A c \in Callers :
          (pc[c] = "lockwait") ~> (lock = c \/ OutOfLaunches)
    /\ [](\A c \in Callers : i[c] <= AttemptBudget)
    /\ [][\A c \in Callers :
            /\ (pc[c] = "finish" /\ pc'[c] # "finish")
                  => out'[c] \in PortTexts \cup {"ERROR"}
            /\ (pc[c] = "exit" /\ pc'[c] # "exit")
                  => (lock = c /\ lock' = 0 /\ live' = live)
            /\ (pc[c] = "lockwait" /\ pc'[c] # "lockwait")
                  => (lock = 0 /\ lock' = c /\ out'[c] = out[c]
                      /\ result'[c] = result[c])]_vars

\* the start of the first caller has returned and released the lock while the
\* server it launched is running; the second caller, which had to wait, now
\* holds the lock
C26_Witness ==
    /\ pc[1] = "resolved"
    /\ SessionAlive
    /\ lock = 2
    /\ pc[2] = "connect"


\* the launches made by the resolve of caller c, both attempts, whose wrapper
\* or worker is alive
OwnLive(c) ==
    {k \in first[c] \cup launched[c] :
        WrapperPid(k) \in live \/ WorkerPid(k) \in live}

\* C27: the two-phase resolve leaves what one connect-or-start after a
\* redeploy would leave: when its retry returns, at most one server process
\* launched by this resolve is alive, as after a single connect-or-start.
C27_AsIfOnce ==
    \A c \in Callers :
        (pc[c] = "exit" /\ op[c] = "synchronized-start" /\ attempt[c] = 2)
            => Cardinality(OwnLive(c)) <= 1


\* C28: one resolve calls synchronized-start at most twice, the optimistic
\* attempt and one retry after the fallback; it raises the count at most once
\* in total, and not at all when it ends in failure.
C28_AtMostTwice ==
    /\ [](\A c \in Callers :
            /\ attempt[c] <= 2
            /\ incs[c] <= 1
            /\ result[c].kind \in {"TemporarilyNotAvailable", "error"}
                  => incs[c] = 0)
    /\ [][\A c \in Callers :
            (/\ pc'[c] = "lockwait"
             /\ pc[c] # "lockwait"
             /\ op'[c] = "synchronized-start")
                => (attempt'[c] = attempt[c] + 1 /\ attempt'[c] \in {1, 2})]_vars

\* the retry of a resolve has returned a port after its optimistic attempt
\* had failed: the count was raised once
C28_Witness ==
    \E c \in Callers :
        /\ pc[c] = "returned"
        /\ attempt[c] = 2
        /\ Deployed(c)
        /\ ParseInt(out[c]) # NaN
        /\ incs[c] = 1


\* C29: a running session with a positive count is ended by nothing but a
\* disconnect or the explicit stop of the manual recovery command: as long as
\* its server stays alive, every other step, of whichever caller, leaves it
\* running with the same server, the same port and a count that has not
\* dropped. A caller that never disconnects keeps its session for good.
C29_NoAutomaticReclaim ==
    [][(/\ SessionAlive
        /\ Cat("count") >= 1
        /\ ~(\E c \in Callers : Disconnect(c))
        /\ ~ClearStop)
          => /\ SessionAlive'
             /\ present' = present
             /\ val'.port = val.port
             /\ val'.pid2 = val.pid2
             /\ val'.count >= val.count]_vars

\* the first caller has never disconnected; the second has connected and
\* disconnected again, and the session is still running with count 1
C29_Witness ==
    /\ pc[1] = "resolved"
    /\ disconnects[1] = 0
    /\ pc[2] = "exit"
    /\ op[2] = "synchronized-disconnect"
    /\ decs[2] = 1
    /\ SessionAlive
    /\ val.count = 1


\* C30: orchestrators of different versions keep their control scripts under
\* different names in one session directory, and neither writes the other's
\* script; their scripts lock the same directory and use the same state
\* files, so that their commands exclude each other and the one that finds
\* the other's session running connects to it: it gets the recorded port,
\* raises the count and launches nothing.
C30_VersionsCoexist ==
    /\ [](\A c \in Callers :
            /\ SESSION_DIR(c) = server_session_dir
            /\ deployed[control_script_path(c)] \in {"", version[c]}
            /\ InOp(c) => lock = c)
    /\ [](\A c, d \in Callers :
            /\ version[c] # version[d]
                  => control_script_path(c) # control_script_path(d)
            /\ (InOp(c) /\ InOp(d)) => c = d)
    /\ [][\A c \in Callers :
            (pc[c] = "connect" /\ pc'[c] # "connect" /\ SessionAlive)
                => /\ out'[c] = PortText(val.port)
                   /\ val'.count = val.count + 1
                   /\ live' = live
                   /\ stage' = stage]_vars

\* the orchestrator of one version has started the server; the one of the
\* other version, with its own control script, has connected to that session
C30_Witness ==
    /\ version[1] # version[2]
    /\ deployed[control_script_path(1)] = version[1]
    /\ deployed[control_script_path(2)] = version[2]
    /\ pc[1] = "resolved"
    /\ pc[2] = "resolved"
    /\ result[1] = result[2]
    /\ SessionAlive
    /\ val.count = 2
    /\ Cardinality({k \in Launches : stage[k] # "unused"}) = 1

\* a resolve of caller c has failed: both attempts printed no port and
\* resolve threw TemporarilyNotAvailable
FailedResolve(c) ==
    pc[c] = "idle" /\ result[c] = temporarily_not_available

\* C31: a resolve fails only after its last synchronized-start left none of
\* port, pid1, pid2, count; the failing resolve registers no release callback,
\* has raised no count and touches no state file itself, so that after it the
\* state files are absent unless another caller has started or joined a
\* session of its own since.
C31_FailedResolveLeavesNothing ==
    /\ [](\A c \in Callers :
            FailedResolve(c) =>
                /\ registered[c] = 0
                /\ incs[c] = 0
                /\ (present = {} \/ \E d \in Callers \ {c} : incs[d] > 0))
    /\ [][\A c \in Callers :
            /\ (/\ pc[c] = "finish" /\ pc'[c] = "exit"
                /\ ~IsNumeric(out'[c])) => present' = {}
            /\ (/\ pc[c] = "returned" /\ attempt[c] = 2
                /\ ParseInt(out[c]) = NaN /\ pc'[c] # "returned") =>
                    /\ FailedResolve(c)'
                    /\ registered'[c] = 0
                    /\ UNCHANGED <<present, val, live>>]_vars

C31_Witness ==
    \E c \in Callers :
        /\ FailedResolve(c)
        /\ present = {}
        /\ installed
        /\ \A d \in Callers \ {c} : pc[d] = "idle" /\ result[d] = NoResult
        /\ \E k \in Launches : stage[k] # "unused"

\* the callers whose resolve raised the count of the session now recorded and
\* whose disconnect has not lowered it yet
Holders ==
    {c \in Callers : joined[c] # 0 /\ joined[c] = Cat("pid2") /\ decs[c] = 0}

\* C32: whenever the session is Running the count equals the number of
\* successful resolutions of the recorded server that are not yet
\* disconnected, and a disconnect never kills the recorded server while
\* another caller that resolved it has not yet issued its own disconnect.
C32_CountProtectsHolders ==
    /\ [](SessionAlive => Cat("count") = Cardinality(Holders))
    /\ [][\A c \in Callers :
            (/\ pc[c] = "disconnect" /\ pc'[c] = "exit"
             /\ "pid2" \in present
             /\ Alive(val.pid2) /\ val.pid2 \notin live') =>
                ~\E d \in Callers \ {c} :
                    joined[d] = val.pid2 /\ disconnects[d] = 0]_vars

\* C33: a start that times out and prints ERROR does not leave the process
\* it launched running: after it no live server process exists that is not
\* recorded in pid1 or pid2.
C33_FailedStartKillsLaunch ==
    [][\A c \in Callers :
        (pc[c] = "finish" /\ pc'[c] = "exit" /\ out'[c] = "ERROR") =>
            /\ {PID1[c], PsChild(PID1[c])} \cap live' = {}
            /\ live' \subseteq stop_server_kills']_vars

\* C34: the marker a poll of start_server picks up was announced by the
\* process this start launched: it is never read while that process has not
\* come to listen yet, and while the process listens it is its port; that
\* port is the one the start records and prints.
C34_PortOfOwnLaunch ==
    [][\A c \in Callers :
        /\ (pc[c] = "poll" /\ PORT'[c] # 0) =>
              /\ stage[LaunchOf(c)] \notin {"forked", "worker"}
              /\ stage[LaunchOf(c)] = "listening"
                    => lport[LaunchOf(c)] = PORT'[c]
        /\ (pc[c] = "finish" /\ pc'[c] = "exit" /\ PORT[c] # 0) =>
              /\ val'.port = PORT[c]
              /\ out'[c] = PortText(PORT[c])]_vars

\* everything of the session but the count file: the other three state
\* files, the log and the processes
FrameButCount ==
    <<present \ {"count"}, val.port, val.pid1, val.pid2, logExists, log,
      live, stage, lport>>

\* C35: a connect that prints the port, and a disconnect that finds a count
\* of two or more, write the count file (one more, one less) and nothing
\* else: port, pid1 and pid2 keep their values, and no process is killed or
\* launched.
C35_OnlyCountChanges ==
    [][\A c \in Callers :
        /\ (pc[c] = "connect" /\ pc'[c] = "exit") =>
              /\ "count" \in present'
              /\ val'.count = Cat("count") + 1
              /\ FrameButCount' = FrameButCount
              /\ {val.pid1, val.pid2} \cap live
                    = {val'.pid1, val'.pid2} \cap live'
        /\ (/\ pc[c] = "disconnect" /\ pc'[c] = "exit"
            /\ "count" \in present /\ val.count - 1 > 0) =>
              /\ "count" \in present'
              /\ val'.count = val.count - 1
              /\ FrameButCount' = FrameButCount
              /\ {val.pid1, val.pid2} \cap live
                    = {val'.pid1, val'.pid2} \cap live']_vars

\* a disconnect has taken the count from 2 to 1; the session is as it was,
\* with both recorded processes running
C35_Witness ==
    \E c \in Callers :
        /\ pc[c] = "exit" /\ op[c] = "synchronized-disconnect"
        /\ decs[c] = 1
        /\ present = Files /\ val.count = 1
        /\ SessionAlive /\ Alive(val.pid1)
        /\ \E d \in Callers \ {c} : pc[d] = "resolved" /\ joined[d] = val.pid2

\* C36: a connect that finds none of the state files prints NOT RUNNING, and
\* a disconnect that finds none prints NOT CONNECTED; both leave the four
\* files absent, kill and launch nothing and count nothing.  No count file
\* ever holds a negative value.
C36_AbsentStaysAbsent ==
    /\ []("count" \in present => val.count >= 0)
    /\ [][\A c \in Callers :
            /\ (pc[c] = "connect" /\ pc'[c] # "connect" /\ present = {}) =>
                  /\ connOut'[c] = "NOT RUNNING"
                  /\ present' = {}
                  /\ UNCHANGED <<val, live, stage, lport, incs>>
            /\ (pc[c] = "disconnect" /\ pc'[c] # "disconnect"
                /\ present = {}) =>
                  /\ out'[c] = "NOT CONNECTED"
                  /\ present' = {}
                  /\ UNCHANGED <<val, live, stage, lport, decs>>]_vars

\* the release of a caller whose session the manual recovery command had
\* stopped in the meantime has answered NOT CONNECTED
C36_Witness ==
    \E c \in Callers :
        /\ pc[c] = "exit" /\ op[c] = "synchronized-disconnect"
        /\ out[c] = "NOT CONNECTED"
        /\ joined[c] # 0 /\ decs[c] = 0
        /\ stops >= 1
        /\ present = {}
        /\ \E k \in Launches : WorkerPid(k) = joined[c] /\ stage[k] = "dead"

====
